---- MODULE Spec2Model ----
(***************************************************************************)
(* Model of bytecode_tracer.py: the operand-stack view (ValueStack), the   *)
(* line-number-table rewriter (rewrite_lnotab / rewrite_function /         *)
(* rewrite_all / has_been_rewritten) and the call-event tracer             *)
(* (BytecodeTracer.trace).                                                 *)
(*                                                                         *)
(* Python values are modelled as strings; the contents of tuples and       *)
(* dictionaries are given by TupleItems and DictItems.  A Python dict is a *)
(* TLA+ function from names to values, a Python list a sequence.           *)
(***************************************************************************)
EXTENDS Integers, Sequences, FiniteSets, TLC

VARIABLES
    frame,      \* ValueStack: the frame handed to ValueStack(frame)
    layout,     \* ValueStack: what the interpreter really put on the stack
    vs,         \* ValueStack: the constructed view (its attributes)
    vs_out,     \* ValueStack: results of bottom / positional_args / keyword_args
    func_code,  \* function.func_code of every interpreted function
    rw,         \* the last call into the rewriter: its argument and outcome
    call_stack, \* BytecodeTracer.call_stack
    frames,     \* the interpreter's frames, outermost first
    event,      \* what the last call of trace returned (or raised)
    open,       \* history: the 'c_call' events not yet matched or retired
    chk,        \* history: what the last notification closed
    prev,       \* history: the last notification and call_stack before it
    threads     \* the threads running rewrite_function: position and locals

stackVars == <<frame, layout, vs, vs_out>>
traceVars == <<call_stack, frames, event, open, chk, prev>>
vars == <<frame, layout, vs, vs_out, func_code, rw, call_stack, frames, event, open, chk,
         prev, threads>>

(***************************************************************************)
(* Bounds of the model.                                                    *)
(***************************************************************************)
MaxBelow == 2   \* operands lying below the callee on the operand stack
MaxPos == 2     \* explicit positional arguments of a call
MaxKw == 1      \* explicit keyword arguments of a call
MaxBlocks == 3  \* code blocks in one tree of nested code blocks
MaxConsts == 2  \* entries of one constant pool
CodeLen == 4    \* len(co_code): "LOAD_CONST None; RETURN_VALUE" is 4 bytes
MaxFrames == 2  \* interpreter frames entered and not yet exited
MaxStack == 2   \* slots of a frame's operand stack while it is traced
MaxCallStack == 4   \* entries of call_stack
MaxOpen == 2     \* 'c_call' events emitted and neither matched nor retired
MaxNotifyDepth == 2  \* entries of call_stack when trace is driven directly
MaxThreads == 2  \* threads that apply rewrite_function to one function
MaxRaceBlocks == 2   \* code blocks in the tree of the function the threads rewrite

(***************************************************************************)
(* The universe of Python values.                                          *)
(***************************************************************************)
CFuncs == {"cf"}                \* functions implemented in C (no func_code)
PyFuncs == {"pf"}               \* interpreted functions (have func_code)
Ints == {"i1"}
Names == {"kx", "ky"}           \* keyword names (str objects)
Tuples == {"t0", "t1"}
Dicts == {"d0", "d1"}
NoValue == "<none>"             \* placeholder: no object

TupleItems(t) ==
    IF t = "t1" THEN <<"i1", "pf">> ELSE <<>>

DictItems(d) ==
    IF d = "d1" THEN ("kx" :> "cf") @@ ("ky" :> "pf") ELSE <<>>

\* builtin callable(obj)
callable(v) == v \in CFuncs \cup PyFuncs

\* hasattr(obj, 'func_code')
has_func_code(v) == v \in PyFuncs

is_c_func(func) == ~ has_func_code(func)

(***************************************************************************)
(* opcode.opname entries, as the sequence of their '_'-separated parts.    *)
(***************************************************************************)
CALL_FUNCTION == <<"CALL", "FUNCTION">>
CALL_FUNCTION_VAR == <<"CALL", "FUNCTION", "VAR">>
CALL_FUNCTION_KW == <<"CALL", "FUNCTION", "KW">>
CALL_FUNCTION_VAR_KW == <<"CALL", "FUNCTION", "VAR", "KW">>
PRINT_ITEM == <<"PRINT", "ITEM">>
PRINT_NEWLINE == <<"PRINT", "NEWLINE">>
LOAD_CONST == <<"LOAD", "CONST">>
POP_TOP == <<"POP", "TOP">>

CallOps == {CALL_FUNCTION, CALL_FUNCTION_VAR, CALL_FUNCTION_KW, CALL_FUNCTION_VAR_KW}
OtherOps == {LOAD_CONST, POP_TOP}
PrintOps == {PRINT_ITEM, PRINT_NEWLINE}

\* name.startswith("CALL_FUNCTION")
startswith_CALL_FUNCTION(name) ==
    Len(name) >= 2 /\ name[1] = "CALL" /\ name[2] = "FUNCTION"

\* name.startswith("PRINT_")
startswith_PRINT(name) ==
    Len(name) >= 2 /\ name[1] = "PRINT"

\* "_VAR" in bcode
contains_VAR(name) == \E i \in 2..Len(name) : name[i] = "VAR"

\* "_KW" in bcode
contains_KW(name) == \E i \in 2..Len(name) : name[i] = "KW"

(***************************************************************************)
(* Python sequence primitives.                                             *)
(***************************************************************************)
Min(a, b) == IF a < b THEN a ELSE b
Max(a, b) == IF a > b THEN a ELSE b

\* s[a:b] with 0-based bounds a, b >= 0: out-of-range bounds are clipped
Slice(s, a, b) ==
    LET lo == Min(a, Len(s))
        hi == Min(Max(b, lo), Len(s))
    IN  [i \in 1..(hi - lo) |-> s[lo + i]]

\* s[i] with a 0-based index i >= 0 is an IndexError when out of range
InRange(s, i) == i >= 0 /\ i < Len(s)
Item(s, i) == IF InRange(s, i) THEN s[i + 1] ELSE NoValue

\* dict.update: entries of b override the entries of a
DictUpdate(a, b) ==
    [n \in (DOMAIN a) \cup (DOMAIN b) |-> IF n \in DOMAIN b THEN b[n] ELSE a[n]]

\* dict(zip(alist[::2], alist[1::2])): later pairs override earlier ones
RECURSIVE flatlist_to_dict(_)
flatlist_to_dict(alist) ==
    IF Len(alist) < 2 THEN <<>>
    ELSE DictUpdate(alist[1] :> alist[2],
                    flatlist_to_dict(Slice(alist, 2, Len(alist))))

(***************************************************************************)
(* A frame as the tracer reads it: get_value_stack(frame) and the bytes of *)
(* f_code.co_code from f_lasti on (the opcode's name and the two bytes     *)
(* that follow it).                                                        *)
(***************************************************************************)
Frame(stack, name, b1, b2) ==
    [f_stack |-> stack, f_opname |-> name, f_byte1 |-> b1, f_byte2 |-> b2]

get_value_stack(f) == f.f_stack

current_bytecode(f) == f.f_opname

\* unpack_CALL_FUNCTION: <<name, code[1], code[2]>>, or <<>> for the None
\* that falls off the end of the function
unpack_CALL_FUNCTION(f) ==
    IF startswith_CALL_FUNCTION(f.f_opname)
    THEN <<f.f_opname, f.f_byte1, f.f_byte2>>
    ELSE <<>>

(***************************************************************************)
(* class ValueStack                                                        *)
(***************************************************************************)
NoDescriptor ==
    [positional_args_count |-> 0, keyword_args_count |-> 0, args_count |-> 0,
     singlestar |-> FALSE, doublestar |-> FALSE]

\* the try block of __init__: the attributes decoded from the call instruction
Descriptor(f) ==
    LET u == unpack_CALL_FUNCTION(f)
    IN  [positional_args_count |-> u[2],
         keyword_args_count |-> u[3],
         args_count |-> u[2] + 2 * u[3],
         singlestar |-> contains_VAR(u[1]),
         doublestar |-> contains_KW(u[1])]

\* mutant: slot 0 is always taken for the callee
Offset_never_skips(stack) == 0

\* self.offset: 0 when slot 0 is callable, 1 otherwise
Offset(stack) == IF ~ callable(stack[1]) THEN 1 ELSE 0

\* ValueStack.__init__.  Unpacking the None that unpack_CALL_FUNCTION returns
\* for any other instruction raises TypeError, which "except ValueError" lets
\* through; self.stack[0] raises IndexError on an empty stack.
ValueStack(f) ==
    LET stack == get_value_stack(f)
        isCall == unpack_CALL_FUNCTION(f) # <<>>
        raised == IF ~ isCall THEN "TypeError"
                  ELSE IF Len(stack) = 0 THEN "IndexError"
                  ELSE ""
        offset == IF raised = "" THEN Offset(stack) ELSE 0
    IN  [raised |-> raised,
         stack |-> stack,
         descriptor |-> isCall,
         d |-> IF isCall THEN Descriptor(f) ELSE NoDescriptor,
         offset |-> offset,
         args_start |-> offset + 1]

NoView ==
    [raised |-> "unbuilt", stack |-> <<>>, descriptor |-> FALSE, d |-> NoDescriptor,
     offset |-> 0, args_start |-> 0]

\* ValueStack.bottom
bottom(self) == Item(self.stack, self.offset)

\* mutant: the skipped slot is forgotten when indexing above the arguments
stack_above_args_no_skip(self, offset) ==
    Item(self.stack, 1 + self.d.args_count + offset)

\* ValueStack.stack_above_args
stack_above_args(self, offset) ==
    Item(self.stack, self.args_start + self.d.args_count + offset)

\* ValueStack.positional_args_from_stack
positional_args_from_stack(self) ==
    LET positional_start == self.args_start
    IN  Slice(self.stack, positional_start,
              positional_start + self.d.positional_args_count)

\* ValueStack.positional_args_from_varargs
positional_args_from_varargs(self) == stack_above_args(self, 0)

\* list.extend raises TypeError unless handed an iterable (IndexError when the
\* slot does not exist)
positional_args_raises(self) ==
    self.d.singlestar /\ positional_args_from_varargs(self) \notin Tuples

\* ValueStack.positional_args
positional_args(self) ==
    LET args == positional_args_from_stack(self)
    IN  IF self.d.singlestar
        THEN args \o TupleItems(positional_args_from_varargs(self))
        ELSE args

\* ValueStack.keyword_args_from_stack
keyword_args_from_stack(self) ==
    LET keywords_start == self.args_start + self.d.positional_args_count
        args == Slice(self.stack, keywords_start,
                      keywords_start + 2 * self.d.keyword_args_count)
    IN  flatlist_to_dict(args)

\* mutant: **kwargs is read right after the pairs even when *args is there
keyword_args_from_double_star_no_varargs(self) == stack_above_args(self, 0)

\* ValueStack.keyword_args_from_double_star
keyword_args_from_double_star(self) ==
    IF self.d.singlestar
    THEN stack_above_args(self, 1)
    ELSE stack_above_args(self, 0)

\* dict.update raises unless handed a mapping (IndexError when the slot does
\* not exist); dict() raises TypeError on an unhashable key
keyword_args_raises(self) ==
    LET keywords_start == self.args_start + self.d.positional_args_count
        args == Slice(self.stack, keywords_start,
                      keywords_start + 2 * self.d.keyword_args_count)
    IN  \/ \E i \in 1..Len(args) : i % 2 = 1 /\ args[i] \in Dicts
        \/ self.d.doublestar /\ keyword_args_from_double_star(self) \notin Dicts

\* ValueStack.keyword_args
keyword_args(self) ==
    LET kwds == keyword_args_from_stack(self)
    IN  IF self.d.doublestar
        THEN DictUpdate(kwds, DictItems(keyword_args_from_double_star(self)))
        ELSE kwds

(***************************************************************************)
(* Code blocks (types.CodeType).  Only the fields the rewriter reads or    *)
(* replaces are kept: len(co_code), co_consts, co_firstlineno, co_lnotab   *)
(* (a sequence of bytes).  An entry of co_consts is a code block or some   *)
(* other constant.                                                         *)
(***************************************************************************)
None == [tag |-> "None"]
OtherConst == [tag |-> "const"]

CodeType(n_bytes, consts, firstlineno, lnotab) ==
    [tag |-> "code", co_code_len |-> n_bytes, co_consts |-> consts,
     co_firstlineno |-> firstlineno, co_lnotab |-> lnotab]

\* type(const) is CodeType
is_CodeType(const) == const.tag = "code"

\* "\x01\x01" * n
RECURSIVE Marker(_)
Marker(n) == IF n <= 0 THEN <<>> ELSE <<1, 1>> \o Marker(n - 1)

\* has_been_rewritten: re.match(r"\A(\x01\x01)+\Z", code.co_lnotab)
has_been_rewritten(code) ==
    /\ Len(code.co_lnotab) > 0
    /\ Len(code.co_lnotab) % 2 = 0
    /\ \A i \in 1..Len(code.co_lnotab) : code.co_lnotab[i] = 1

\* rewrite_lnotab: None for a block that has been rewritten, else a new block
RECURSIVE rewrite_lnotab(_)
rewrite_lnotab(code) ==
    IF has_been_rewritten(code) THEN None
    ELSE LET n_bytes == code.co_code_len
             new_lnotab == Marker(n_bytes - 1)
             new_consts == [i \in 1..Len(code.co_consts) |->
                               IF is_CodeType(code.co_consts[i])
                               THEN rewrite_lnotab(code.co_consts[i])
                               ELSE code.co_consts[i]]
         IN  CodeType(code.co_code_len, new_consts, 0, new_lnotab)

\* mutant: the attribute takes any object, None included
func_code_accepts_anything(value) == FALSE

\* "function.func_code = value": the attribute accepts code objects only and
\* raises TypeError for anything else, None included
func_code_set_raises(value) == ~ is_CodeType(value)

\* mutant: whatever rewrite_lnotab returns is stored
rewrite_function_stores_result(fc, function) ==
    [fc EXCEPT ![function] = rewrite_lnotab(fc[function])]

\* rewrite_function: the function's code after the call
rewrite_function(fc, function) ==
    LET new == rewrite_lnotab(fc[function])
    IN  IF func_code_set_raises(new) THEN fc
        ELSE [fc EXCEPT ![function] = new]

\* rewrite_function raises (TypeError from the assignment)
rewrite_function_raises(fc, function) ==
    func_code_set_raises(rewrite_lnotab(fc[function]))

\* rewrite_all: rewrite_function on every object with a func_code, in order,
\* up to the first one that raises
RECURSIVE rewrite_all(_, _)
rewrite_all(fc, objects) ==
    IF objects = <<>> THEN fc
    ELSE IF ~ has_func_code(Head(objects)) THEN rewrite_all(fc, Tail(objects))
    ELSE IF rewrite_function_raises(fc, Head(objects)) THEN fc
    ELSE rewrite_all(rewrite_function(fc, Head(objects)), Tail(objects))

RECURSIVE rewrite_all_raises(_, _)
rewrite_all_raises(fc, objects) ==
    IF objects = <<>> THEN FALSE
    ELSE IF ~ has_func_code(Head(objects)) THEN rewrite_all_raises(fc, Tail(objects))
    ELSE IF rewrite_function_raises(fc, Head(objects)) THEN TRUE
    ELSE rewrite_all_raises(rewrite_function(fc, Head(objects)), Tail(objects))

(***************************************************************************)
(* The code blocks the rewriter is handed: trees of at most MaxBlocks code *)
(* blocks, every pool of at most MaxConsts entries, each block either as   *)
(* compiled (line table "\x00\x01") or with the marker line table.         *)
(***************************************************************************)
CompiledLnotab == <<0, 1>>

RECURSIVE BlocksOfSize(_), PoolsOfSize(_, _)
\* the pools of exactly len entries holding n code blocks in all
PoolsOfSize(n, len) ==
    IF len = 0 THEN (IF n = 0 THEN {<<>>} ELSE {})
    ELSE {<<OtherConst>> \o p : p \in PoolsOfSize(n, len - 1)}
         \cup UNION {{<<b>> \o p : b \in BlocksOfSize(m),
                                    p \in PoolsOfSize(n - m, len - 1)} : m \in 1..n}

\* the trees of exactly n code blocks
BlocksOfSize(n) ==
    LET pools == UNION {PoolsOfSize(n - 1, len) : len \in 0..MaxConsts}
    IN  {CodeType(CodeLen, p, 1, CompiledLnotab) : p \in pools}
        \cup {CodeType(CodeLen, p, 0, Marker(CodeLen - 1)) : p \in pools}

CodeBlocks(max) == UNION {BlocksOfSize(n) : n \in 1..max}

\* a function as compiled, holding no nested code
PlainCode == CodeType(CodeLen, <<>>, 1, CompiledLnotab)

NoRw == [op |-> "none", arg |-> None, result |-> None, raised |-> ""]

(***************************************************************************)
(* The tracer before any notification.                                     *)
(***************************************************************************)
NoEvent ==
    [kind |-> "-", function |-> NoValue, pargs |-> <<>>, kargs |-> <<>>,
     value |-> NoValue]

NoEntry == [frame |-> 0, len0 |-> 0, native |-> FALSE, done |-> FALSE, ret |-> NoValue]

NoChk ==
    [what |-> "none", resumed |-> FALSE, emitted |-> FALSE, len0 |-> 0,
     entry |-> NoEntry]

\* no notification yet
NoPrev ==
    [ev |-> "none", call_stack |-> <<>>, f |-> Frame(<<>>, LOAD_CONST, 0, 0),
     callee |-> NoValue, base |-> 0]

\* no thread is inside rewrite_function
NoThreads == <<>>

TraceIdle ==
    /\ call_stack = <<>>
    /\ frames = <<>>
    /\ event = NoEvent
    /\ open = <<>>
    /\ chk = NoChk
    /\ prev = NoPrev

(***************************************************************************)
(* The operand stack the interpreter presents at a call instruction:       *)
(* operands of enclosing expressions or block context values (below), the  *)
(* callee, the explicit positional arguments, the name/value pairs, the    *)
(* *args sequence and the **kwargs mapping.                                *)
(***************************************************************************)
SeqsUpTo(S, n) == UNION {[1..m -> S] : m \in 0..n}

RECURSIVE Flatten(_)
Flatten(pairs) ==
    IF pairs = <<>> THEN <<>>
    ELSE <<pairs[1][1], pairs[1][2]>> \o Flatten(Tail(pairs))

BelowValues == Ints \cup CFuncs
PosValues == Ints \cup PyFuncs
KwValues == Ints \cup PyFuncs

Layouts ==
    [below : SeqsUpTo(BelowValues, MaxBelow),
     callee : CFuncs \cup PyFuncs,
     pos : SeqsUpTo(PosValues, MaxPos),
     kws : SeqsUpTo(Names \X KwValues, MaxKw),
     var : {NoValue} \cup Tuples,
     kw : {NoValue} \cup Dicts]

StackOf(l) ==
    l.below \o <<l.callee>> \o l.pos \o Flatten(l.kws)
        \o (IF l.var # NoValue THEN <<l.var>> ELSE <<>>)
        \o (IF l.kw # NoValue THEN <<l.kw>> ELSE <<>>)

OpOf(l) ==
    IF l.var # NoValue
    THEN IF l.kw # NoValue THEN CALL_FUNCTION_VAR_KW ELSE CALL_FUNCTION_VAR
    ELSE IF l.kw # NoValue THEN CALL_FUNCTION_KW ELSE CALL_FUNCTION

\* the frame stopped at the call instruction of layout l
FrameAtCall(l) == Frame(StackOf(l), OpOf(l), Len(l.pos), Len(l.kws))

\* slots the call consumes above the callee
SlotsConsumed(l) ==
    Len(l.pos) + 2 * Len(l.kws)
        + (IF l.var # NoValue THEN 1 ELSE 0) + (IF l.kw # NoValue THEN 1 ELSE 0)

NoOut == [called |-> {}, raised |-> {}, bottom |-> NoValue, pargs |-> <<>>, kargs |-> <<>>]

\* a frame stopped at an instruction that is no call: LOAD_CONST, POP_TOP
FramesNotAtCall(l) ==
    IF SlotsConsumed(l) = 0
    THEN {Frame(StackOf(l), op, 0, 0) : op \in OtherOps}
    ELSE {}

(***************************************************************************)
(* Specification of the operand-stack view: a frame at a call instruction  *)
(* is decoded.                                                             *)
(***************************************************************************)
InitStack ==
    /\ layout \in Layouts
    /\ frame \in {FrameAtCall(layout)} \cup FramesNotAtCall(layout)
    /\ vs = NoView
    /\ vs_out = NoOut
    /\ func_code = [f \in PyFuncs |-> PlainCode]
    /\ rw = NoRw
    /\ TraceIdle
    /\ threads = NoThreads

VS_init ==
    /\ vs = NoView
    /\ vs' = ValueStack(frame)
    /\ UNCHANGED <<frame, layout, vs_out, func_code, rw, traceVars, threads>>

VS_bottom ==
    /\ vs.raised = ""
    /\ "bottom" \notin vs_out.called
    /\ vs_out' = [vs_out EXCEPT !.called = @ \cup {"bottom"},
                                !.raised = IF InRange(vs.stack, vs.offset)
                                           THEN @ ELSE @ \cup {"bottom"},
                                !.bottom = bottom(vs)]
    /\ UNCHANGED <<frame, layout, vs, func_code, rw, traceVars, threads>>

VS_positional_args ==
    /\ vs.raised = ""
    /\ vs_out.called = {"bottom"}
    /\ vs_out' = IF positional_args_raises(vs)
                  THEN [vs_out EXCEPT !.called = @ \cup {"positional_args"},
                                      !.raised = @ \cup {"positional_args"}]
                  ELSE [vs_out EXCEPT !.called = @ \cup {"positional_args"},
                                      !.pargs = positional_args(vs)]
    /\ UNCHANGED <<frame, layout, vs, func_code, rw, traceVars, threads>>

VS_keyword_args ==
    /\ vs.raised = ""
    /\ vs_out.called = {"bottom", "positional_args"}
    /\ vs_out' = IF keyword_args_raises(vs)
                  THEN [vs_out EXCEPT !.called = @ \cup {"keyword_args"},
                                      !.raised = @ \cup {"keyword_args"}]
                  ELSE [vs_out EXCEPT !.called = @ \cup {"keyword_args"},
                                      !.kargs = keyword_args(vs)]
    /\ UNCHANGED <<frame, layout, vs, func_code, rw, traceVars, threads>>

NextStack == VS_init \/ VS_bottom \/ VS_positional_args \/ VS_keyword_args

SpecStack == InitStack /\ [][NextStack]_vars

(***************************************************************************)
(* Specification of the rewriter: an interpreted function refers to some   *)
(* code block and the rewriter's entry points are called on it.            *)
(***************************************************************************)
TheFunction == CHOOSE f \in PyFuncs : TRUE

InitRewrite ==
    /\ frame = Frame(<<>>, LOAD_CONST, 0, 0)
    /\ layout = [below |-> <<>>, callee |-> NoValue, pos |-> <<>>, kws |-> <<>>,
                 var |-> NoValue, kw |-> NoValue]
    /\ vs = NoView
    /\ vs_out = NoOut
    /\ func_code \in [PyFuncs -> CodeBlocks(MaxBlocks)]
    /\ rw = NoRw
    /\ TraceIdle
    /\ threads = NoThreads

\* rewrite_lnotab(function.func_code), the result not stored
Call_rewrite_lnotab ==
    /\ \E f \in PyFuncs :
         rw' = [op |-> "rewrite_lnotab", arg |-> func_code[f],
                result |-> rewrite_lnotab(func_code[f]), raised |-> ""]
    /\ UNCHANGED <<stackVars, func_code, traceVars, threads>>

\* rewrite_function(function)
Call_rewrite_function ==
    /\ \E f \in PyFuncs :
         /\ rw' = [op |-> "rewrite_function", arg |-> func_code[f],
                   result |-> rewrite_lnotab(func_code[f]),
                   raised |-> IF rewrite_function_raises(func_code, f)
                              THEN "TypeError" ELSE ""]
         /\ func_code' = rewrite_function(func_code, f)
    /\ UNCHANGED <<stackVars, traceVars, threads>>

NextRewrite == Call_rewrite_lnotab \/ Call_rewrite_function

SpecRewrite == InitRewrite /\ [][NextRewrite]_vars

(***************************************************************************)
(* Properties of the rewriter.                                             *)
(***************************************************************************)
\* C9: rewriting is idempotent: rewrite_lnotab and rewrite_function applied
\* to a block that has been rewritten return that very block, and the owning
\* function still refers to it.
C9_RewriteIdempotent ==
    (rw.op \in {"rewrite_lnotab", "rewrite_function"} /\ has_been_rewritten(rw.arg))
        => /\ rw.result = rw.arg
           /\ rw.raised = ""
           /\ func_code[TheFunction] = rw.arg

\* C10: rewriting a block yields a block for which has_been_rewritten is
\* true, whose pool holds a rewritten code block at the position of every
\* nested code block and the other constants as they were.
C10_NestedRewritten ==
    (rw.op = "rewrite_lnotab")
        => /\ is_CodeType(rw.result)
           /\ has_been_rewritten(rw.result)
           /\ Len(rw.result.co_consts) = Len(rw.arg.co_consts)
           /\ \A i \in 1..Len(rw.arg.co_consts) :
                 IF is_CodeType(rw.arg.co_consts[i])
                 THEN /\ is_CodeType(rw.result.co_consts[i])
                      /\ has_been_rewritten(rw.result.co_consts[i])
                 ELSE rw.result.co_consts[i] = rw.arg.co_consts[i]

(***************************************************************************)
(* Properties of the operand-stack view.                                   *)
(***************************************************************************)
AtCall == startswith_CALL_FUNCTION(frame.f_opname)

\* the layout the view is documented for: the callee in slot 0, or one
\* skipped value that is not callable in slot 0 and the callee in slot 1
DocumentedLayout ==
    \/ layout.below = <<>>
    \/ Len(layout.below) = 1 /\ ~ callable(layout.below[1])

\* 1-based index of the slot the call instruction invokes
CalleeSlot == Len(frame.f_stack) - SlotsConsumed(layout)

\* C5: at a call instruction bottom() is the object the instruction is about
\* to invoke, the slot lying positional-count + 2*keyword-count + (1 if *args)
\* + (1 if **kwargs) slots below the top of the operand stack, whatever lies
\* below the callee.
C5_BottomIsCallee ==
    (AtCall /\ "bottom" \in vs_out.called)
        => vs_out.bottom = frame.f_stack[CalleeSlot]

\* C6: on a documented layout positional_args() is the p explicit positional
\* slots in stack order, followed by the elements of the *args sequence when
\* the variadic-positional flag is set.
C6_PositionalArgs ==
    (AtCall /\ DocumentedLayout /\ "positional_args" \in vs_out.called)
        => /\ "positional_args" \notin vs_out.raised
           /\ vs_out.pargs =
                 layout.pos \o (IF layout.var # NoValue
                                THEN TupleItems(layout.var) ELSE <<>>)

C6_Witness ==
    /\ AtCall /\ Len(layout.below) = 1 /\ "positional_args" \in vs_out.called
    /\ Len(layout.pos) = 2 /\ Len(layout.kws) = 1 /\ layout.var = "t1"
    /\ layout.kw # NoValue
    /\ Len(vs_out.pargs) = 4

\* the mapping the name/value pairs denote: the last pair of a name wins
PairsDict(pairs) ==
    [n \in {pairs[i][1] : i \in 1..Len(pairs)} |->
        LET last == CHOOSE i \in 1..Len(pairs) :
                        /\ pairs[i][1] = n
                        /\ \A j \in (i + 1)..Len(pairs) : pairs[j][1] # n
        IN  pairs[last][2]]

\* 1-based index of the slot right after the name/value pairs
AfterPairsSlot == CalleeSlot + Len(layout.pos) + 2 * Len(layout.kws) + 1

\* C7: on a documented layout keyword_args() is the mapping of the k
\* name/value pairs that follow the p positional slots, overlaid with the
\* **kwargs mapping when that flag is set; the mapping is read from the slot
\* right after the pairs when there is no *args and one slot later otherwise.
C7_KeywordArgs ==
    (AtCall /\ DocumentedLayout /\ "keyword_args" \in vs_out.called)
        => /\ "keyword_args" \notin vs_out.raised
           /\ vs_out.kargs =
                 IF layout.kw = NoValue THEN PairsDict(layout.kws)
                 ELSE DictUpdate(PairsDict(layout.kws),
                        DictItems(frame.f_stack[AfterPairsSlot
                            + (IF layout.var # NoValue THEN 1 ELSE 0)]))

C7_Witness ==
    /\ AtCall /\ Len(layout.below) = 1 /\ "keyword_args" \in vs_out.called
    /\ layout.kws = <<(<<"kx", "i1">>)>> /\ layout.var # NoValue /\ layout.kw = "d1"
    /\ vs_out.kargs = ("kx" :> "cf") @@ ("ky" :> "pf")

\* C8: slot 0 callable: offset 0 and bottom() is slot 0; slot 0 not
\* callable: offset 1, bottom() is slot 1 and the arguments are read from
\* slot 2 on.
C8_OffsetResolution ==
    (AtCall /\ vs.raised = "")
        => /\ callable(frame.f_stack[1]) =>
                /\ vs.offset = 0
                /\ "bottom" \in vs_out.called => vs_out.bottom = frame.f_stack[1]
           /\ ~ callable(frame.f_stack[1]) =>
                /\ vs.offset = 1
                /\ "bottom" \in vs_out.called => vs_out.bottom = frame.f_stack[2]
                /\ ("positional_args" \in vs_out.called \ vs_out.raised) =>
                      \A i \in 1..frame.f_byte1 :
                          (2 + i <= Len(frame.f_stack)) =>
                              vs_out.pargs[i] = frame.f_stack[2 + i]

C8_Witness ==
    /\ AtCall /\ ~ callable(frame.f_stack[1]) /\ vs.offset = 1
    /\ "positional_args" \in vs_out.called \ vs_out.raised
    /\ frame.f_byte1 = 2 /\ vs_out.bottom = "cf"
    /\ Len(layout.below) = 1

(***************************************************************************)
(* class BytecodeTracer.  An entry of call_stack is None (NoneMark) or the *)
(* offset recorded for a C call.  trace returns an event or raises; the    *)
(* outcome carries the tracer's state at that point.                       *)
(***************************************************************************)
NoneMark == 0 - 1

Event(kind, function, pargs, kargs, value) ==
    [kind |-> kind, function |-> function, pargs |-> pargs, kargs |-> kargs,
     value |-> value]

Returned(kind) == Event(kind, NoValue, <<>>, <<>>, NoValue)

Outcome(cs, fc, ev) == [call_stack |-> cs, func_code |-> fc, event |-> ev]

Errors == {"IndexError", "TypeError"}

\* kargs.values(), in the dictionary's iteration order
RECURSIVE DictValues(_)
DictValues(d) ==
    IF DOMAIN d = {} THEN <<>>
    ELSE LET n == CHOOSE m \in DOMAIN d : TRUE
         IN  <<d[n]>> \o DictValues([m \in (DOMAIN d) \ {n} |-> d[m]])

Last(q) == q[Len(q)]
Front(q) == SubSeq(q, 1, Len(q) - 1)

\* trace(frame, 'line') with the frame at a CALL_FUNCTION* instruction
trace_line_call(cs, fc, f) ==
    LET value_stack == ValueStack(f)
        function == bottom(value_stack)
    IN  IF value_stack.raised # "" THEN Outcome(cs, fc, Returned(value_stack.raised))
        ELSE IF ~ InRange(value_stack.stack, value_stack.offset)
        THEN Outcome(cs, fc, Returned("IndexError"))
        ELSE IF ~ is_c_func(function)
        THEN IF rewrite_function_raises(fc, function)
             THEN Outcome(cs, fc, Returned("TypeError"))
             ELSE Outcome(cs, rewrite_function(fc, function), Returned("None"))
        ELSE LET pushed == Append(cs, value_stack.offset)
             IN  IF positional_args_raises(value_stack) \/ keyword_args_raises(value_stack)
                 THEN Outcome(pushed, fc, Returned("TypeError"))
                 ELSE LET pargs == positional_args(value_stack)
                          kargs == keyword_args(value_stack)
                          objects == pargs \o DictValues(kargs)
                      IN  IF rewrite_all_raises(fc, objects)
                          THEN Outcome(pushed, rewrite_all(fc, objects),
                                       Returned("TypeError"))
                          ELSE Outcome(pushed, rewrite_all(fc, objects),
                                       Event("c_call", function, pargs, kargs, NoValue))

\* mutant: an empty call_stack reads as "no pending C call"
trace_line_other_tolerant(cs, fc, f) ==
    IF cs # <<>> /\ Last(cs) # NoneMark
    THEN LET offset == Last(cs)
         IN  IF InRange(get_value_stack(f), offset)
             THEN Outcome(Front(cs), fc,
                          Event("c_return", NoValue, <<>>, <<>>,
                                Item(get_value_stack(f), offset)))
             ELSE Outcome(Front(cs), fc, Returned("IndexError"))
    ELSE IF startswith_PRINT(current_bytecode(f))
    THEN Outcome(cs, fc, Returned("print"))
    ELSE Outcome(cs, fc, Returned("None"))

\* trace(frame, 'line') with the frame at any other instruction
trace_line_other(cs, fc, f) ==
    IF cs = <<>> THEN Outcome(cs, fc, Returned("IndexError"))
    ELSE IF Last(cs) # NoneMark
    THEN LET offset == Last(cs)
         IN  IF InRange(get_value_stack(f), offset)
             THEN Outcome(Front(cs), fc,
                          Event("c_return", NoValue, <<>>, <<>>,
                                Item(get_value_stack(f), offset)))
             ELSE Outcome(Front(cs), fc, Returned("IndexError"))
    ELSE IF startswith_PRINT(current_bytecode(f))
    THEN Outcome(cs, fc, Returned("print"))
    ELSE Outcome(cs, fc, Returned("None"))

\* mutant: nothing is pushed at the 'call' notification
trace_entry_not_pushed(cs, fc, f, ev) ==
    IF ev = "line"
    THEN IF startswith_CALL_FUNCTION(current_bytecode(f))
         THEN trace_line_call(cs, fc, f)
         ELSE trace_line_other(cs, fc, f)
    ELSE IF ev = "call"
    THEN Outcome(cs, fc, Returned("None"))
    ELSE IF ev = "exception"
    THEN IF cs = <<>> THEN Outcome(cs, fc, Returned("IndexError"))
         ELSE IF Last(cs) # NoneMark THEN Outcome(Front(cs), fc, Returned("None"))
         ELSE Outcome(cs, fc, Returned("None"))
    ELSE IF ev = "return"
    THEN IF cs = <<>> THEN Outcome(cs, fc, Returned("IndexError"))
         ELSE Outcome(Front(cs), fc, Returned("None"))
    ELSE Outcome(cs, fc, Returned("None"))

\* BytecodeTracer.trace
trace(cs, fc, f, ev) ==
    IF ev = "line"
    THEN IF startswith_CALL_FUNCTION(current_bytecode(f))
         THEN trace_line_call(cs, fc, f)
         ELSE trace_line_other(cs, fc, f)
    ELSE IF ev = "call"
    THEN Outcome(Append(cs, NoneMark), fc, Returned("None"))
    ELSE IF ev = "exception"
    THEN IF cs = <<>> THEN Outcome(cs, fc, Returned("IndexError"))
         ELSE IF Last(cs) # NoneMark THEN Outcome(Front(cs), fc, Returned("None"))
         ELSE Outcome(cs, fc, Returned("None"))
    ELSE IF ev = "return"
    THEN IF cs = <<>> THEN Outcome(cs, fc, Returned("IndexError"))
         ELSE Outcome(Front(cs), fc, Returned("None"))
    ELSE Outcome(cs, fc, Returned("None"))

(***************************************************************************)
(* The interpreter that delivers the notifications.  A frame is           *)
(*   new        entered, no instruction notified yet                       *)
(*   run        the instruction last notified has been executed            *)
(*   native     a C function called by the frame is running                *)
(*   pycall     an interpreted function called by the frame is running     *)
(*   raising    the interpreted callee left with an exception              *)
(*   returning  RETURN_VALUE has been notified                             *)
(*   unwinding  an exception left unhandled is leaving the frame           *)
(* When a call starts the interpreter takes the callee and its arguments   *)
(* off the operand stack; the result is pushed when the call returns.      *)
(* instr tells whether the frame runs instrumented code (every instruction *)
(* is notified); in other frames call instructions are not notified, since *)
(* a call instruction never starts a source line.                          *)
(***************************************************************************)
LoadValues == CFuncs \cup PyFuncs \cup Ints \cup {"kx"}
RetValues == Ints \cup CFuncs

\* base: the length of call_stack when the frame was entered
NewFrame(instr, base) ==
    [stack |-> <<>>, st |-> "new", instr |-> instr, callee |-> NoValue,
     seen |-> FALSE, emitted |-> FALSE, len0 |-> 0, base |-> base]

Top == frames[Len(frames)]
Halted == event.kind \in Errors

\* index of the last 'c_call' of frame d whose call is still running (0: none)
Running(d) ==
    LET is == {i \in 1..Len(open) : open[i].frame = d /\ ~ open[i].done}
    IN  IF is = {} THEN 0 ELSE CHOOSE i \in is : \A j \in is : j <= i

RemoveAt(q, i) == [j \in 1..(Len(q) - 1) |-> IF j < i THEN q[j] ELSE q[j + 1]]

\* the frame once the C function it called has returned r
Resumed(fr, r) ==
    [fr EXCEPT !.stack = Append(@, r), !.st = "run", !.callee = NoValue,
               !.seen = FALSE, !.emitted = FALSE]

\* the history once the C function called by the top frame has returned r
OpenAfterReturn(fr, r) ==
    LET i == Running(Len(frames))
    IN  IF fr.st = "native" /\ fr.emitted /\ i > 0
        THEN [open EXCEPT ![i].done = TRUE, ![i].ret = r]
        ELSE open

\* the top frame about to execute its next instruction, with the history:
\* as it is, or after the return of the C function it was waiting for
ReadyToRun ==
    IF frames = <<>> THEN {}
    ELSE IF Top.st \in {"new", "run"} THEN {<<Top, open>>}
    ELSE IF Top.st = "native"
    THEN {<<Resumed(Top, r), OpenAfterReturn(Top, r)>> : r \in RetValues}
    ELSE {}

\* the call descriptors the operand stack s can be at
Descriptors(s) ==
    {d \in [p : 0..MaxPos, k : 0..MaxKw, var : BOOLEAN, kw : BOOLEAN] :
        LET n == d.p + 2 * d.k + (IF d.var THEN 1 ELSE 0) + (IF d.kw THEN 1 ELSE 0)
            top == Len(s)
            kwslot == top
            varslot == top - (IF d.kw THEN 1 ELSE 0)
            pairs == varslot - (IF d.var THEN 1 ELSE 0) - 2 * d.k
        IN  /\ top >= n + 1
            /\ callable(s[top - n])
            /\ d.kw => s[kwslot] \in Dicts
            /\ d.var => s[varslot] \in Tuples
            /\ \A j \in 1..d.k : s[pairs + 2 * j - 1] \in Names}

Consumed(d) ==
    d.p + 2 * d.k + (IF d.var THEN 1 ELSE 0) + (IF d.kw THEN 1 ELSE 0)

OpName(d) ==
    IF d.var THEN (IF d.kw THEN CALL_FUNCTION_VAR_KW ELSE CALL_FUNCTION_VAR)
    ELSE (IF d.kw THEN CALL_FUNCTION_KW ELSE CALL_FUNCTION)

\* the frame once the call instruction of descriptor d has started its call
Calling(fr, d, seen, emitted, len0) ==
    LET callee == fr.stack[Len(fr.stack) - Consumed(d)]
    IN  [fr EXCEPT !.stack = SubSeq(@, 1, Len(@) - Consumed(d) - 1),
                   !.st = IF is_c_func(callee) THEN "native" ELSE "pycall",
                   !.callee = callee, !.seen = seen, !.emitted = emitted,
                   !.len0 = len0]

SetTop(fr) == [frames EXCEPT ![Len(frames)] = fr]

\* the tracer's state after trace returned or raised
Traced(out) ==
    /\ call_stack' = out.call_stack
    /\ func_code' = out.func_code
    /\ event' = out.event

Raised(out) == out.event.kind \in Errors

\* the history of the notification ev delivered with frame f; callee is the
\* object a call instruction invokes, base the base of the frame notified
Notified(ev, f, callee, base) ==
    prev' = [ev |-> ev, call_stack |-> call_stack, f |-> f, callee |-> callee,
             base |-> base]

\* the history after a 'line' notification: whether a C call of the frame
\* returned just before it, whether that call's 'c_call' had been emitted and
\* the length of call_stack before its call instruction; a 'c_return' takes
\* the most recent open 'c_call'
Closing(out, op) ==
    LET resumed == [what |-> "none", resumed |-> Top.st = "native" /\ Top.seen,
                    emitted |-> Top.emitted, len0 |-> Top.len0, entry |-> NoEntry]
    IN  IF out.event.kind = "c_return"
        THEN /\ chk' = [resumed EXCEPT !.what = "c_return",
                                       !.entry = IF op = <<>> THEN NoEntry ELSE Last(op)]
             /\ open' = IF op = <<>> THEN op ELSE Front(op)
        ELSE /\ chk' = resumed
             /\ open' = op

\* 'call': a frame is entered, at the start of the program, for the
\* interpreted callee of the top frame, or for an interpreted function the
\* running C function calls back
FrameEntry ==
    /\ ~ Halted
    /\ Len(frames) < MaxFrames
    /\ Len(call_stack) < MaxCallStack
    /\ \E instr \in BOOLEAN :
         /\ \/ frames = <<>> /\ event = NoEvent /\ instr
            \/ /\ frames # <<>> /\ Top.st = "pycall"
               /\ instr = has_been_rewritten(func_code[Top.callee])
            \/ /\ frames # <<>> /\ Top.st = "native"
               /\ \E g \in PyFuncs : instr = has_been_rewritten(func_code[g])
         /\ frames' = Append(frames, NewFrame(instr, Len(call_stack)))
    /\ Traced(trace(call_stack, func_code, Frame(<<>>, LOAD_CONST, 0, 0), "call"))
    /\ Notified("call", Frame(<<>>, LOAD_CONST, 0, 0), NoValue, Len(call_stack))
    /\ chk' = NoChk
    /\ UNCHANGED <<stackVars, rw, open, threads>>

\* 'line' at a CALL_FUNCTION* instruction of an instrumented frame
Line_CALL_FUNCTION ==
    /\ ~ Halted
    /\ Len(call_stack) < MaxCallStack
    /\ Len(open) < MaxOpen
    /\ \E rdy \in ReadyToRun : \E d \in Descriptors(rdy[1].stack) :
         LET fr == rdy[1]
             out == trace(call_stack, func_code,
                          Frame(fr.stack, OpName(d), d.p, d.k), "line")
             emitted == out.event.kind = "c_call"
             called == Calling(fr, d, TRUE, emitted, Len(call_stack))
         IN  /\ fr.instr
             /\ Traced(out)
             /\ Notified("line", Frame(fr.stack, OpName(d), d.p, d.k), called.callee,
                         fr.base)
             /\ frames' = IF Raised(out) THEN SetTop(fr) ELSE SetTop(called)
             /\ open' = IF emitted
                        THEN Append(rdy[2],
                                 [frame |-> Len(frames), len0 |-> Len(call_stack),
                                  native |-> called.st = "native", done |-> FALSE,
                                  ret |-> NoValue])
                        ELSE rdy[2]
             /\ chk' = [NoChk EXCEPT !.resumed = Top.st = "native" /\ Top.seen,
                                     !.emitted = Top.emitted, !.len0 = Top.len0]
    /\ UNCHANGED <<stackVars, rw, threads>>

\* a call instruction of a frame that is not instrumented: no notification
SilentCall ==
    /\ ~ Halted
    /\ \E rdy \in ReadyToRun : \E d \in Descriptors(rdy[1].stack) :
         /\ ~ rdy[1].instr
         /\ frames' = SetTop(Calling(rdy[1], d, FALSE, FALSE, Len(call_stack)))
         /\ open' = rdy[2]
    /\ chk' = NoChk
    /\ UNCHANGED <<stackVars, rw, func_code, call_stack, event, prev, threads>>

\* 'line' at LOAD_CONST (pushes a value) or POP_TOP
Line_other ==
    /\ ~ Halted
    /\ \E rdy \in ReadyToRun : \E op \in OtherOps : \E v \in LoadValues :
         LET fr == rdy[1]
             out == trace(call_stack, func_code, Frame(fr.stack, op, 0, 0), "line")
             after == IF op = LOAD_CONST THEN Append(fr.stack, v)
                      ELSE SubSeq(fr.stack, 1, Len(fr.stack) - 1)
         IN  /\ op = LOAD_CONST => Len(fr.stack) < MaxStack
             /\ op = POP_TOP => (fr.stack # <<>> /\ v = "i1")
             /\ Traced(out)
             /\ Notified("line", Frame(fr.stack, op, 0, 0), NoValue, fr.base)
             /\ frames' = IF Raised(out) THEN SetTop(fr)
                          ELSE SetTop([fr EXCEPT !.stack = after, !.st = "run"])
             /\ Closing(out, rdy[2])
    /\ UNCHANGED <<stackVars, rw, threads>>

\* 'line' at PRINT_ITEM (pops the value printed) or PRINT_NEWLINE
Line_PRINT ==
    /\ ~ Halted
    /\ \E rdy \in ReadyToRun : \E op \in PrintOps :
         LET fr == rdy[1]
             out == trace(call_stack, func_code, Frame(fr.stack, op, 0, 0), "line")
             after == IF op = PRINT_ITEM THEN SubSeq(fr.stack, 1, Len(fr.stack) - 1)
                      ELSE fr.stack
         IN  /\ op = PRINT_ITEM => fr.stack # <<>>
             /\ Traced(out)
             /\ Notified("line", Frame(fr.stack, op, 0, 0), NoValue, fr.base)
             /\ frames' = IF Raised(out) THEN SetTop(fr)
                          ELSE SetTop([fr EXCEPT !.stack = after, !.st = "run"])
             /\ Closing(out, rdy[2])
    /\ UNCHANGED <<stackVars, rw, threads>>

\* 'line' at RETURN_VALUE: the frame is about to return the top of its stack
Line_RETURN_VALUE ==
    /\ ~ Halted
    /\ \E rdy \in ReadyToRun :
         LET fr == rdy[1]
             out == trace(call_stack, func_code,
                          Frame(fr.stack, <<"RETURN", "VALUE">>, 0, 0), "line")
         IN  /\ fr.stack # <<>>
             /\ Traced(out)
             /\ Notified("line", Frame(fr.stack, <<"RETURN", "VALUE">>, 0, 0), NoValue,
                         fr.base)
             /\ frames' = IF Raised(out) THEN SetTop(fr)
                          ELSE SetTop([fr EXCEPT !.st = "returning"])
             /\ Closing(out, rdy[2])
    /\ UNCHANGED <<stackVars, rw, threads>>

\* the frame after an 'exception' notification: a handler of the frame takes
\* over with the operand stack cut back to its block, or the frame unwinds
AfterException(fr) ==
    {[fr EXCEPT !.st = "run", !.stack = SubSeq(@, 1, n), !.callee = NoValue,
                !.seen = FALSE, !.emitted = FALSE] : n \in 0..Len(fr.stack)}
    \cup {[fr EXCEPT !.st = "unwinding", !.callee = NoValue,
                     !.seen = FALSE, !.emitted = FALSE]}

\* 'exception' in the frame whose C function raised
Exception_in_C ==
    /\ ~ Halted
    /\ frames # <<>> /\ Top.st = "native"
    /\ LET out == trace(call_stack, func_code,
                        Frame(Top.stack, LOAD_CONST, 0, 0), "exception")
           i == Running(Len(frames))
       IN  /\ Traced(out)
           /\ Notified("exception", Frame(Top.stack, LOAD_CONST, 0, 0), NoValue, Top.base)
           /\ \E fr \in AfterException(Top) :
                frames' = IF Raised(out) THEN frames ELSE SetTop(fr)
           /\ open' = IF Top.emitted /\ i > 0 THEN RemoveAt(open, i) ELSE open
           /\ chk' = [NoChk EXCEPT !.what = IF Top.seen THEN "c_raise" ELSE "none",
                                   !.emitted = Top.emitted, !.len0 = Top.len0]
    /\ UNCHANGED <<stackVars, rw, threads>>

\* 'exception' in a frame whose own instruction raised, or whose interpreted
\* callee left with an exception
Exception_in_Python ==
    /\ ~ Halted
    /\ frames # <<>> /\ Top.st \in {"run", "raising"}
    /\ LET out == trace(call_stack, func_code,
                        Frame(Top.stack, LOAD_CONST, 0, 0), "exception")
       IN  /\ Traced(out)
           /\ Notified("exception", Frame(Top.stack, LOAD_CONST, 0, 0), NoValue, Top.base)
           /\ \E fr \in AfterException(Top) :
                frames' = IF Raised(out) THEN frames ELSE SetTop(fr)
    /\ chk' = NoChk
    /\ UNCHANGED <<stackVars, rw, open, threads>>

\* 'return': the top frame is left, by RETURN_VALUE or by an exception
FrameExit ==
    /\ ~ Halted
    /\ frames # <<>> /\ Top.st \in {"returning", "unwinding"}
    /\ LET out == trace(call_stack, func_code,
                        Frame(Top.stack, <<"RETURN", "VALUE">>, 0, 0), "return")
           rest == Front(frames)
           caller == Last(rest)
           back == IF caller.st = "native" THEN caller
                   ELSE IF Top.st = "unwinding"
                   THEN [caller EXCEPT !.st = "raising"]
                   ELSE [caller EXCEPT !.st = "run", !.stack = Append(@, Last(Top.stack)),
                                       !.callee = NoValue, !.seen = FALSE]
       IN  /\ Traced(out)
           /\ Notified("return", Frame(Top.stack, <<"RETURN", "VALUE">>, 0, 0), NoValue,
                       Top.base)
           /\ frames' = IF Raised(out) THEN frames
                        ELSE IF rest = <<>> THEN rest
                        ELSE [rest EXCEPT ![Len(rest)] = back]
    /\ chk' = NoChk
    /\ UNCHANGED <<stackVars, rw, open, threads>>

InitTrace ==
    /\ frame = Frame(<<>>, LOAD_CONST, 0, 0)
    /\ layout = [below |-> <<>>, callee |-> NoValue, pos |-> <<>>, kws |-> <<>>,
                 var |-> NoValue, kw |-> NoValue]
    /\ vs = NoView
    /\ vs_out = NoOut
    /\ func_code = [f \in PyFuncs |-> PlainCode]
    /\ rw = NoRw
    /\ TraceIdle
    /\ threads = NoThreads

NextTrace ==
    \/ FrameEntry
    \/ Line_CALL_FUNCTION
    \/ SilentCall
    \/ Line_other
    \/ Line_PRINT
    \/ Line_RETURN_VALUE
    \/ Exception_in_C
    \/ Exception_in_Python
    \/ FrameExit

SpecTrace == InitTrace /\ [][NextTrace]_vars

(***************************************************************************)
(* Properties of the tracer.                                               *)
(***************************************************************************)
\* C calls in progress: called at a notified call instruction and neither
\* returned nor raised
NativeInProgress ==
    Cardinality({i \in 1..Len(frames) : frames[i].st = "native" /\ frames[i].seen})

\* C1: after every notification trace has processed, the length of
\* call_stack is the number of frames entered and not yet exited plus the
\* number of C calls in progress.
C1_DepthIsNesting ==
    (~ Halted) => Len(call_stack) = Len(frames) + NativeInProgress

\* C2: every 'c_return' belongs to the most recent 'c_call' not yet matched
\* or retired, a call of a C function made by the frame notified that has
\* returned, and carries the value that function returned.
C2_ReturnMatchesCall ==
    (event.kind = "c_return")
        => /\ chk.entry # NoEntry
           /\ chk.entry.native
           /\ chk.entry.done
           /\ chk.entry.frame = Len(frames)
           /\ event.value = chk.entry.ret

\* C3: a C call that returns normally has had its 'c_call' emitted at its
\* call instruction and gets its 'c_return' at a later 'line' notification
\* of the same frame, before the frame's 'return' notification; after the
\* 'c_return' call_stack is as long as before the call instruction.
C3_CallThenReturn ==
    (~ Halted)
        => /\ chk.resumed => chk.emitted
           /\ \A i \in 1..Len(open) : open[i].done => open[i].frame <= Len(frames)
           /\ (event.kind = "c_return" /\ chk.entry.done)
                 => /\ chk.entry.frame = Len(frames)
                    /\ Len(call_stack) = chk.entry.len0

\* C4: a C call that raises has had its 'c_call' emitted at its call
\* instruction, gets no 'c_return', and after the 'exception' notification
\* of the calling frame call_stack is as long as before the call
\* instruction.
C4_RaiseRetiresCall ==
    (chk.what = "c_raise" /\ ~ Halted)
        => /\ chk.emitted
           /\ Len(call_stack) = chk.len0

(***************************************************************************)
(* Properties of single notifications, stated over the notification last   *)
(* delivered (prev) and the tracer's state after it.                       *)
(***************************************************************************)
\* the last notification was a 'line' at a call instruction
LineAtCall == prev.ev = "line" /\ startswith_CALL_FUNCTION(current_bytecode(prev.f))

\* the last notification was a 'line' at an instruction that is no call
LineNotAtCall == prev.ev = "line" /\ ~ startswith_CALL_FUNCTION(current_bytecode(prev.f))

\* C11: after a 'line' notification at a call instruction whose callee is an
\* interpreted function, trace has returned None (no event), call_stack is
\* as it was and the callee refers to a rewritten code block, whether or not
\* it did so before.
C11_InterpretedCallee ==
    (LineAtCall /\ has_func_code(prev.callee))
        => /\ event.kind = "None"
           /\ call_stack = prev.call_stack
           /\ has_been_rewritten(func_code[prev.callee])

\* C12: after a 'line' notification at a PRINT_* instruction trace has
\* returned ('print', None) and call_stack is as it was, whatever its top
\* entry was.
C12_PrintEvent ==
    (prev.ev = "line" /\ startswith_PRINT(current_bytecode(prev.f)))
        => /\ event = Returned("print")
           /\ call_stack = prev.call_stack

\* C13: in a stream of well-nested notifications (every 'line', 'exception'
\* and 'return' belongs to a frame entered by a 'call' notification and not
\* yet left) trace never pops from, nor reads the top of, an empty
\* call_stack: call_stack[-1] and call_stack.pop() always find an entry.
C13_NeverEmptyPop ==
    (LineNotAtCall \/ prev.ev \in {"exception", "return"})
        => prev.call_stack # <<>>

\* the outermost frame has been left: its 'return' popped the only entry
C13_Witness ==
    /\ prev.ev = "return" /\ prev.call_stack = <<NoneMark>>
    /\ call_stack = <<>> /\ frames = <<>> /\ event.kind = "None"

\* the interpreted functions among the objects of a sequence
InterpretedAmong(objects) ==
    {objects[i] : i \in 1..Len(objects)} \cap PyFuncs

\* C16: a 'line' notification at a call instruction whose callee is a C
\* function, found by bottom(), makes trace return 'c_call' for it; after it
\* every interpreted function among the positional arguments and among the
\* values of the keyword arguments refers to a rewritten code block, and
\* call_stack is what it was plus one entry, the view's offset.  This holds
\* also when some of those functions referred to a rewritten block before.
C16_ArgumentsInstrumented ==
    (LineAtCall /\ is_c_func(prev.callee)
                /\ bottom(ValueStack(prev.f)) = prev.callee)
        => /\ event.kind = "c_call"
           /\ event.function = prev.callee
           /\ \A g \in InterpretedAmong(event.pargs \o DictValues(event.kargs)) :
                 has_been_rewritten(func_code[g])
           /\ call_stack = Append(prev.call_stack, ValueStack(prev.f).offset)

\* C17: a 'line' notification on an instruction that is no call, delivered
\* while the top of call_stack is a recorded offset, pops exactly that entry
\* and makes trace return ('c_return', v) with v the operand-stack slot at
\* the recorded offset (the offset is the one popped, not one computed anew
\* from the callability of slot 0).
C17_ReturnAtRecordedOffset ==
    (LineNotAtCall /\ prev.call_stack # <<>> /\ Last(prev.call_stack) # NoneMark)
        => LET offset == Last(prev.call_stack)
           IN  /\ call_stack = Front(prev.call_stack)
               /\ InRange(get_value_stack(prev.f), offset)
               /\ event = Event("c_return", NoValue, <<>>, <<>>,
                                Item(get_value_stack(prev.f), offset))

\* C18: when an interpreted frame unwinds because of an exception and its
\* 'exception' notification found the marker on top of call_stack, that
\* notification left call_stack as it was and made trace return None, and
\* the 'return' notification that follows pops exactly one entry, the marker
\* pushed when the frame was entered.
C18_UnwindPopsMarker ==
    [][(/\ frames # <<>> /\ Top.st = "unwinding"
        /\ prev.ev = "exception"
        /\ prev.call_stack # <<>> /\ Last(prev.call_stack) = NoneMark)
          => /\ call_stack = prev.call_stack
             /\ event.kind = "None"
             /\ call_stack' = Front(call_stack)
             /\ Len(call_stack') = Top.base]_vars

(***************************************************************************)
(* The operand-stack view of a frame that is not at a call instruction.    *)
(***************************************************************************)
\* C14: ValueStack(frame) for a frame whose current instruction is no call
\* instruction completes without raising; the view then carries no call
\* descriptor, and its offset (0 when slot 0 is callable, 1 otherwise) is
\* there for bottom().
C14_SilentForNonCall ==
    (~ AtCall /\ vs # NoView)
        => /\ vs.raised = ""
           /\ ~ vs.descriptor
           /\ vs.offset = (IF callable(frame.f_stack[1]) THEN 0 ELSE 1)

(***************************************************************************)
(* Specification of concurrent rewriting: every thread runs                *)
(* rewrite_function(function) on the same function.  The interpreter       *)
(* switches threads between bytecode instructions, so a thread's call is   *)
(* the sequence of steps                                                   *)
(*   read    load function.func_code as the argument of rewrite_lnotab     *)
(*   check   the test of has_been_rewritten                                *)
(*   build   the construction of the new code block                        *)
(*   assign  the store into function.func_code                             *)
(* and another thread may run between any two of them.                     *)
(***************************************************************************)
Threads == 1..MaxThreads

ThreadAt(pc, code, new) == [pc |-> pc, code |-> code, new |-> new]

InitRace ==
    /\ frame = Frame(<<>>, LOAD_CONST, 0, 0)
    /\ layout = [below |-> <<>>, callee |-> NoValue, pos |-> <<>>, kws |-> <<>>,
                 var |-> NoValue, kw |-> NoValue]
    /\ vs = NoView
    /\ vs_out = NoOut
    /\ func_code \in [PyFuncs -> CodeBlocks(MaxRaceBlocks)]
    /\ rw = NoRw
    /\ TraceIdle
    /\ threads = [t \in Threads |-> ThreadAt("read", None, None)]

\* function.func_code is read
T_read(t) ==
    /\ threads[t].pc = "read"
    /\ threads' = [threads EXCEPT ![t] = ThreadAt("check", func_code[TheFunction], None)]
    /\ UNCHANGED <<stackVars, func_code, rw, traceVars>>

\* rewrite_lnotab: "if has_been_rewritten(code): return"
T_check(t) ==
    /\ threads[t].pc = "check"
    /\ threads' = [threads EXCEPT ![t].pc = IF has_been_rewritten(threads[t].code)
                                            THEN "assign" ELSE "build"]
    /\ UNCHANGED <<stackVars, func_code, rw, traceVars>>

\* rewrite_lnotab: the new code block is built from the block read
T_build(t) ==
    /\ threads[t].pc = "build"
    /\ threads' = [threads EXCEPT ![t].pc = "assign",
                                  ![t].new = rewrite_lnotab(threads[t].code)]
    /\ UNCHANGED <<stackVars, func_code, rw, traceVars>>

\* "function.func_code = <result>": stored, or TypeError
T_assign(t) ==
    /\ threads[t].pc = "assign"
    /\ IF func_code_set_raises(threads[t].new)
       THEN /\ threads' = [threads EXCEPT ![t].pc = "raised"]
            /\ UNCHANGED func_code
       ELSE /\ threads' = [threads EXCEPT ![t].pc = "done"]
            /\ func_code' = [func_code EXCEPT ![TheFunction] = threads[t].new]
    /\ UNCHANGED <<stackVars, rw, traceVars>>

NextRace == \E t \in Threads : T_read(t) \/ T_check(t) \/ T_build(t) \/ T_assign(t)

SpecRace == InitRace /\ [][NextRace]_vars

\* C15: when several threads apply rewrite_function to the same function,
\* then in every interleaving of their steps, from the moment the first
\* thread has left rewrite_function (by returning or by raising), the
\* function refers to a code block for which has_been_rewritten is true; in
\* particular it does so when all threads have finished.
C15_RaceLeavesInstrumented ==
    (\E t \in Threads : threads[t].pc \in {"done", "raised"})
        => /\ is_CodeType(func_code[TheFunction])
           /\ has_been_rewritten(func_code[TheFunction])

\* two threads both read the function as compiled, both built a block and
\* both stored theirs
C15_Witness ==
    /\ threads[1].pc = "done" /\ threads[2].pc = "done"
    /\ ~ has_been_rewritten(threads[1].code)
    /\ ~ has_been_rewritten(threads[2].code)
    /\ has_been_rewritten(func_code[TheFunction])

(***************************************************************************)
(* Specification of the tracer and the rewriter as a library: trace is     *)
(* called with any notification for any frame, in any order (a tracer      *)
(* installed while frames are already running misses their 'call'), and    *)
(* rewrite_function and rewrite_all are called on any objects.  rw keeps a  *)
(* call into the rewriter until the next notification.                     *)
(***************************************************************************)
\* the objects on the operand stacks and among the objects of rewrite_all
NotifyValues == CFuncs \cup PyFuncs \cup Ints

\* the frames a 'line' notification is delivered with, each with the object
\* its instruction invokes (NoValue when it is no call instruction)
LineFrames ==
    UNION {{<<Frame(s, OpName(d), d.p, d.k), s[Len(s) - Consumed(d)]>> :
                d \in Descriptors(s)}
           \cup {<<Frame(s, op, 0, 0), NoValue>> : op \in {LOAD_CONST, PRINT_ITEM}} :
           s \in SeqsUpTo(NotifyValues, MaxStack)}

\* any frame, for the notifications that do not read it
SomeFrame == Frame(<<>>, LOAD_CONST, 0, 0)

InitNotify ==
    /\ frame = Frame(<<>>, LOAD_CONST, 0, 0)
    /\ layout = [below |-> <<>>, callee |-> NoValue, pos |-> <<>>, kws |-> <<>>,
                 var |-> NoValue, kw |-> NoValue]
    /\ vs = NoView
    /\ vs_out = NoOut
    /\ func_code = [f \in PyFuncs |-> PlainCode]
    /\ rw = NoRw
    /\ TraceIdle
    /\ threads = NoThreads

\* trace(frame, 'line')
Notify_line ==
    /\ Len(call_stack) < MaxNotifyDepth
    /\ \E fc \in LineFrames :
         /\ Traced(trace(call_stack, func_code, fc[1], "line"))
         /\ Notified("line", fc[1], fc[2], 0)
    /\ rw' = NoRw
    /\ UNCHANGED <<stackVars, frames, open, chk, threads>>

\* trace(frame, 'call')
Notify_call ==
    /\ Len(call_stack) < MaxNotifyDepth
    /\ Traced(trace(call_stack, func_code, SomeFrame, "call"))
    /\ Notified("call", SomeFrame, NoValue, 0)
    /\ rw' = NoRw
    /\ UNCHANGED <<stackVars, frames, open, chk, threads>>

\* trace(frame, 'exception')
Notify_exception ==
    /\ Traced(trace(call_stack, func_code, SomeFrame, "exception"))
    /\ Notified("exception", SomeFrame, NoValue, 0)
    /\ rw' = NoRw
    /\ UNCHANGED <<stackVars, frames, open, chk, threads>>

\* trace(frame, 'return')
Notify_return ==
    /\ Traced(trace(call_stack, func_code, SomeFrame, "return"))
    /\ Notified("return", SomeFrame, NoValue, 0)
    /\ rw' = NoRw
    /\ UNCHANGED <<stackVars, frames, open, chk, threads>>

\* rewrite_all(objects)
Call_rewrite_all ==
    /\ \E objects \in SeqsUpTo(NotifyValues, MaxStack) :
         /\ rw' = [op |-> "rewrite_all", arg |-> None, result |-> None,
                   raised |-> IF rewrite_all_raises(func_code, objects)
                              THEN "TypeError" ELSE ""]
         /\ func_code' = rewrite_all(func_code, objects)
    /\ UNCHANGED <<stackVars, traceVars, threads>>

NextNotify ==
    \/ Notify_line
    \/ Notify_call
    \/ Notify_exception
    \/ Notify_return
    \/ Call_rewrite_function
    \/ Call_rewrite_all

SpecNotify == InitNotify /\ [][NextNotify]_vars

\* C19: a 'return' notification, an 'exception' notification or a 'line'
\* notification on an instruction that is no call, delivered while
\* call_stack is empty, ends in IndexError: trace returns no event and
\* call_stack is still empty.
C19_EmptyStackIsFatal ==
    (prev.call_stack = <<>> /\ (LineNotAtCall \/ prev.ev \in {"exception", "return"}))
        => /\ event = Returned("IndexError")
           /\ call_stack = <<>>

\* a 'line' notification at a PRINT_* instruction found call_stack empty
C19_Witness ==
    /\ prev.call_stack = <<>> /\ prev.ev = "line"
    /\ startswith_PRINT(current_bytecode(prev.f))
    /\ event.kind = "IndexError" /\ call_stack = <<>>

\* C20: instrumentation is monotone: a function that refers to a code block
\* for which has_been_rewritten is true still does so after any further
\* notification handled by trace and any further call of rewrite_function
\* or rewrite_all.
C20_Monotone ==
    [][\A g \in PyFuncs :
          (is_CodeType(func_code[g]) /\ has_been_rewritten(func_code[g]))
              => (is_CodeType(func_code'[g]) /\ has_been_rewritten(func_code'[g]))]_vars

\* rewrite_function was applied to a function that was rewritten already,
\* and the function still refers to the rewritten block
C20_Witness ==
    /\ rw.op = "rewrite_function" /\ has_been_rewritten(rw.arg)
    /\ func_code[TheFunction] = rw.arg

====
